---- MODULE Spec2Model ----
(***************************************************************************)
(* A model of src/app.py (lines 1-220): the command line tool that clones  *)
(* a GitHub repository into a temporary directory, detects the package     *)
(* managers it uses from marker files and asks each one for its outdated   *)
(* packages.  Lines 221-223 of the file repeat a fragment of main after    *)
(* the call of main and are not modelled.                                  *)
(*                                                                         *)
(* Strings whose characters matter (URLs, requirement files, package       *)
(* names) are sequences of one-character strings; strings that are only    *)
(* compared as a whole (versions, manager names, messages) are TLA+        *)
(* strings.                                                                *)
(***************************************************************************)
EXTENDS Integers, Sequences, FiniteSets, TLC

VARIABLES
    pc,               \* position of the interpreter in main()
    argv,             \* sys.argv[1:], each argument a character sequence
    owner, repo,      \* main's locals set by validate_github_url
    exc,              \* the exception in flight, if any
    tempExists,       \* does the TemporaryDirectory exist on disk
    tempCreated,      \* history: was the TemporaryDirectory ever created
    remote,           \* the files of the repository the URL names
    cloneOutcome,     \* history: what became of the clone, "none" before it
    tree,             \* content of the temporary directory: a set of paths
    package_managers, \* main's local: sequence of <<manager, file_path>>
    idx,              \* check_outdated_packages: position of its for loop
    results,          \* history: what each manager's command gave, in order
    out,              \* what was printed, in order
    calls,            \* history: functions entered and commands run, in order
    exitCode,         \* the process exit status, NoCode while running
    reqFile,          \* content of a requirements file
    reqResult         \* what parse_python_requirements returned and printed, and
                      \* whether the file could be opened

vars == <<pc, argv, owner, repo, exc, tempExists, tempCreated, remote, cloneOutcome,
          tree, package_managers, idx, results, out, calls, exitCode, reqFile,
          reqResult>>

(***************************************************************************)
(* Bounds of the model.                                                    *)
(***************************************************************************)
MaxUrlLen == 7      \* longest URL argument, in characters
MaxFiles == 2       \* most files in the cloned tree
MaxPkgs == 2        \* most entries in one npm outdated report
NameSlack == 1      \* package names reach NameLimit + NameSlack characters
MaxFileLen == 6     \* longest requirements file, in characters

NoCode == -1
None == <<>>

(***************************************************************************)
(* Character sequences.                                                    *)
(***************************************************************************)
StrUpTo(chars, n) == UNION {[1..k -> chars] : k \in 0..n}

Min(a, b) == IF a < b THEN a ELSE b

\* s[i:] and s[:j] with 0-based Python indices
From(s, i) == SubSeq(s, i + 1, Len(s))
Upto(s, j) == SubSeq(s, 1, Min(j, Len(s)))

\* str.find(c): 0-based index of the first c at or after start, -1 if none
Find(s, c, start) ==
    LET hits == {i \in (start + 1)..Len(s) : s[i] = c}
    IN  IF hits = {} THEN -1
        ELSE (CHOOSE i \in hits : \A j \in hits : i <= j) - 1

\* 0-based index of the first occurrence of the string sep in s, -1 if none
FindStr(s, sep) ==
    LET hits == {i \in 1..(Len(s) - Len(sep) + 1) :
                    SubSeq(s, i, i + Len(sep) - 1) = sep}
    IN  IF hits = {} THEN -1
        ELSE (CHOOSE i \in hits : \A j \in hits : i <= j) - 1

\* sep in s
Contains(s, sep) == FindStr(s, sep) >= 0

\* str.split(sep): every non-overlapping occurrence, left to right
RECURSIVE Split(_, _)
Split(s, sep) ==
    LET i == FindStr(s, sep)
    IN  IF i < 0 THEN <<s>>
        ELSE <<Upto(s, i)>> \o Split(From(s, i + Len(sep)), sep)

\* str.strip(chars) for a set of characters
RECURSIVE LStrip(_, _)
LStrip(s, chars) ==
    IF s # <<>> /\ s[1] \in chars THEN LStrip(Tail(s), chars) ELSE s

RECURSIVE RStrip(_, _)
RStrip(s, chars) ==
    IF s # <<>> /\ s[Len(s)] \in chars
    THEN RStrip(SubSeq(s, 1, Len(s) - 1), chars)
    ELSE s

Strip(s, chars) == RStrip(LStrip(s, chars), chars)

(***************************************************************************)
(* validate_github_url                                                     *)
(***************************************************************************)
UrlChars == {"a", "/", ":", "?"}
Alpha == {"a"}
SchemeChars == {"a"}
Urls == StrUpTo(UrlChars, MaxUrlLen)

\* line 23: urllib.parse.urlparse, for URLs without ';' and '[': the scheme,
\* the netloc and the path
urlparse(url) ==
    LET i == Find(url, ":", 0)
        hasScheme == /\ i > 0
                     /\ url[1] \in Alpha
                     /\ \A k \in 1..i : url[k] \in SchemeChars
        scheme == IF hasScheme THEN Upto(url, i) ELSE <<>>
        r1 == IF hasScheme THEN From(url, i + 1) ELSE url
        hasNetloc == Upto(r1, 2) = <<"/", "/">>
        ends == {d \in {Find(r1, "/", 2), Find(r1, "?", 2), Find(r1, "#", 2)} :
                    d >= 0}
        delim == IF ends = {} THEN Len(r1)
                 ELSE CHOOSE d \in ends : \A e \in ends : d <= e
        netloc == IF hasNetloc THEN SubSeq(r1, 3, delim) ELSE <<>>
        r2 == IF hasNetloc THEN From(r1, delim) ELSE r1
        f == Find(r2, "#", 0)
        r3 == IF f >= 0 THEN Upto(r2, f) ELSE r2
        q == Find(r3, "?", 0)
        r4 == IF q >= 0 THEN Upto(r3, q) ELSE r3
    IN  [scheme |-> scheme, netloc |-> netloc, path |-> r4]

\* the path split without stripping its slashes
PathPartsUnstripped(url) == Split(urlparse(url).path, <<"/">>)

\* line 24
PathParts(url) == Split(Strip(urlparse(url).path, {"/"}), <<"/">>)

\* line 25
TooFewParts(path_parts) == Len(path_parts) < 2

\* lines 20-32: the pair returned, or the SystemExit(1) raised
validate_github_url(url) ==
    LET path_parts == PathParts(url)
    IN  IF TooFewParts(path_parts)
        THEN [exit |-> 1, owner |-> None, repo |-> None]
        ELSE [exit |-> NoCode, owner |-> path_parts[1], repo |-> path_parts[2]]

(***************************************************************************)
(* detect_package_managers                                                 *)
(*                                                                         *)
(* A file name is <<stem, extension>>; a path is a sequence of names below *)
(* the root of the tree; a tree is the set of the paths of its files.      *)
(***************************************************************************)
\* lines 51-62, in the dict's order
package_files ==
    << << <<"package", "json">>, "npm" >>,
       << <<"requirements", "txt">>, "pip" >>,
       << <<"Pipfile", "">>, "pipenv" >>,
       << <<"composer", "json">>, "composer" >>,
       << <<"pom", "xml">>, "maven" >>,
       << <<"build", "gradle">>, "gradle" >>,
       << <<"Gemfile", "">>, "bundler" >>,
       << <<"go", "mod">>, "go" >>,
       << <<"Cargo", "toml">>, "cargo" >>,
       << <<"*", "csproj">>, "dotnet" >> >>

Managers == {package_files[i][2] : i \in DOMAIN package_files}

\* line 67
IsGlob(file_pattern) == file_pattern[1] = "*"

\* fnmatch of one name against '*.<ext>'
GlobMatch(name, file_pattern) == name[2] = file_pattern[2]

\* every directory and file of the tree, as a path
Entries(t) == UNION {{SubSeq(p, 1, k) : k \in 1..Len(p)} : p \in t}

\* line 69: Path(temp_dir).rglob(pattern), as a set
RGlob(t, file_pattern) ==
    {e \in Entries(t) : GlobMatch(e[Len(e)], file_pattern)}

\* a literal marker looked for in every directory of the tree
ExistsAnywhere(t, file_pattern) ==
    \E e \in Entries(t) : e[Len(e)] = file_pattern

\* lines 73-74: os.path.exists(os.path.join(temp_dir, file_pattern))
ExistsAtRoot(t, file_pattern) == <<file_pattern>> \in Entries(t)

\* lines 66-75: is the marker found, and the path recorded for it; first is
\* matches[0], the match the file system happens to list first
Found(t, file_pattern) ==
    IF IsGlob(file_pattern) THEN RGlob(t, file_pattern) # {}
    ELSE ExistsAtRoot(t, file_pattern)

Recorded(file_pattern, first) ==
    IF IsGlob(file_pattern) THEN first ELSE <<file_pattern>>

RECURSIVE DetectFrom(_, _, _)
DetectFrom(i, t, first) ==
    IF i > Len(package_files) THEN <<>>
    ELSE LET file_pattern == package_files[i][1]
             manager == package_files[i][2]
         IN  (IF Found(t, file_pattern)
              THEN << <<manager, Recorded(file_pattern, first)>> >>
              ELSE <<>>) \o DetectFrom(i + 1, t, first)

\* lines 49-77
detect_package_managers(t, first) == DetectFrom(1, t, first)

\* the choices of matches[0] the file system may make
FirstMatches(t) ==
    LET m == RGlob(t, <<"*", "csproj">>) IN IF m = {} THEN {None} ELSE m

\* the paths a cloned repository may hold
CandidatePaths ==
    {<<package_files[i][1]>> : i \in 1..9} \cup
    { << <<"app", "csproj">> >>,
      << <<"src", "">>, <<"lib", "csproj">> >>,
      << <<"src", "">>, <<"package", "json">> >>,
      << <<"README", "md">> >> }

Trees == {t \in SUBSET CandidatePaths : Cardinality(t) <= MaxFiles}

(***************************************************************************)
(* print_package_info and the three handlers of check_outdated_packages    *)
(*                                                                         *)
(* A JSON object is a sequence of <<key, value>> pairs in document order   *)
(* (npm's report) or a function from its keys (one package's entry).       *)
(***************************************************************************)
NameLimit == 39

\* the two statuses exchanged
StatusExchanged(current, latest) ==
    IF current = latest THEN "Update Available" ELSE "Up to date"

\* line 171
Status(current, latest) ==
    IF current # latest THEN "Update Available" ELSE "Up to date"

\* lines 174-175
Shown(version) == IF version # "N/A" THEN version ELSE "-"

\* line 179
Truncated(name) == Upto(name, NameLimit)

\* lines 169-184: the four columns of the printed line (each column is padded
\* with blanks to its width, which is not modelled)
print_package_info(name, current, latest) ==
    <<"row", Truncated(name), Shown(current), Shown(latest),
      Status(current, latest)>>

\* dict.get(key, default)
Get(d, key, default) == IF key \in DOMAIN d THEN d[key] ELSE default

\* lines 125-128: one entry of npm's report
NpmRow(entry) ==
    print_package_info(entry[1], Get(entry[2], "current", "N/A"),
                       Get(entry[2], "latest", "N/A"))

\* lines 148-152: one entry of composer's "installed" list
ComposerRow(pkg) ==
    print_package_info(Get(pkg, "name", <<>>), Get(pkg, "version", ""),
                       Get(pkg, "latest", ""))

\* lines 137-141: one entry of pip's list; a missing key raises KeyError
PipKeys == {"name", "version", "latest_version"}
PipRow(pkg) ==
    print_package_info(pkg["name"], pkg["version"], pkg["latest_version"])

\* lines 137-141: the rows printed before the loop ends or a KeyError stops it
RECURSIVE PipRows(_)
PipRows(packages) ==
    IF packages = <<>> THEN [rows |-> <<>>, raised |-> "None"]
    ELSE IF ~(PipKeys \subseteq DOMAIN Head(packages))
         THEN [rows |-> <<>>, raised |-> "KeyError"]
         ELSE LET rest == PipRows(Tail(packages))
              IN  [rows |-> <<PipRow(Head(packages))>> \o rest.rows,
                   raised |-> rest.raised]

\* what one run of a package manager's command gives: launched is FALSE when
\* the binary cannot be started (FileNotFoundError); stdout is blank, text
\* that is not JSON, or a JSON document
Blank == [kind |-> "blank", value |-> <<>>]
NotJson == [kind |-> "text", value |-> <<>>]
Json(v) == [kind |-> "json", value |-> v]
NoLaunch == [launched |-> FALSE, stdout |-> Blank]
Ran(stdout) == [launched |-> TRUE, stdout |-> stdout]

\* lines 120-152: the lines one manager's handler prints after the headers,
\* and the exception it raises, given what its command gave
Handler(manager, result) ==
    IF manager \notin {"npm", "pip", "composer"}
        THEN [rows |-> <<>>, raised |-> "None"]
    ELSE IF ~result.launched
        THEN [rows |-> <<>>, raised |-> "FileNotFoundError"]
    ELSE IF result.stdout.kind = "blank"
        THEN [rows |-> <<>>, raised |-> "None"]
    ELSE IF result.stdout.kind = "text"
        THEN [rows |-> <<>>, raised |-> "JSONDecodeError"]
    ELSE IF manager = "npm"
        THEN [rows |-> [i \in DOMAIN result.stdout.value |->
                            NpmRow(result.stdout.value[i])],
              raised |-> "None"]
    ELSE IF manager = "pip" THEN PipRows(result.stdout.value)
    ELSE LET installed == Get(result.stdout.value, "installed", <<>>)
         IN  [rows |-> [i \in DOMAIN installed |-> ComposerRow(installed[i])],
              raised |-> "None"]

\* the commands one manager's handler runs
Commands(manager, result) ==
    IF manager = "npm" THEN <<"npm outdated">>
    ELSE IF manager = "pip"
        THEN IF result.launched THEN <<"pip install", "pip list">>
             ELSE <<"pip install">>
    ELSE IF manager = "composer" THEN <<"composer outdated">>
    ELSE <<>>

\* the classes derived from Exception among those the program meets;
\* SystemExit derives from BaseException only
ExceptionClasses ==
    {"CalledProcessError", "FileNotFoundError", "JSONDecodeError", "KeyError",
     "OSError", "ValueError"}

\* a loop whose only except clause is the one for CalledProcessError
LoopCatchesCalled(type) == type = "CalledProcessError"

\* lines 156-159: the except clauses of the loop
LoopCatches(type) == type \in ExceptionClasses

\* lines 156-159: the message of the clause that catches
LoopMessage(type, manager) ==
    IF type = "CalledProcessError" THEN <<"Error checking", manager>>
    ELSE <<"Unexpected error checking", manager>>

\* a bare except clause
MainCatchesAll(type) == TRUE

\* line 215: the except clause of main
MainCatches(type) == type \in ExceptionClasses

\* lines 116-159: what one turn of the loop prints
CheckOutput(manager, result) ==
    LET h == Handler(manager, result)
    IN  << <<"section", manager>>, <<"header">> >> \o h.rows \o
        (IF h.raised # "None" /\ LoopCatches(h.raised)
         THEN <<LoopMessage(h.raised, manager)>> ELSE <<>>)

(***************************************************************************)
(* clone_repo                                                              *)
(***************************************************************************)
\* what the environment does to the clone: git is not on the PATH, git exits
\* non-zero, git cannot be started, or the clone succeeds
CloneOutcomes == {"git missing", "clone failed", "oserror", "ok"}

\* a clone_repo that reports the failed clone and returns
clone_repo_returns(outcome) ==
    IF outcome = "git missing"
    THEN [out |-> << <<"Error: Git is not installed">> >>, calls |-> <<>>,
          raised |-> "SystemExit", code |-> 1]
    ELSE [out |-> << <<"Analyzing repository">> >> \o
                  (IF outcome = "clone failed"
                   THEN << <<"Error cloning repository">> >> ELSE <<>>),
          calls |-> <<"git clone">>,
          raised |-> IF outcome = "oserror" THEN "OSError" ELSE "None",
          code |-> NoCode]

\* lines 34-47: what is printed, what is run and what is raised
clone_repo(outcome) ==
    IF outcome = "git missing"
    THEN [out |-> << <<"Error: Git is not installed">> >>, calls |-> <<>>,
          raised |-> "SystemExit", code |-> 1]
    ELSE IF outcome = "clone failed"
    THEN [out |-> << <<"Analyzing repository">>, <<"Error cloning repository">> >>,
          calls |-> <<"git clone">>, raised |-> "SystemExit", code |-> 1]
    ELSE IF outcome = "oserror"
    THEN [out |-> << <<"Analyzing repository">> >>, calls |-> <<"git clone">>,
          raised |-> "OSError", code |-> NoCode]
    ELSE [out |-> << <<"Analyzing repository">> >>, calls |-> <<"git clone">>,
          raised |-> "None", code |-> NoCode]

(***************************************************************************)
(* parse_python_requirements                                               *)
(*                                                                         *)
(* A dict of the parser is a set of <<name, version>> pairs with one pair  *)
(* per name.                                                               *)
(***************************************************************************)
NL == "\n"
ReqChars == {"a", "=", ">", "#", " ", NL}
Whitespace == {" ", NL}
ReqFiles == StrUpTo(ReqChars, MaxFileLen)
NotSpecified == <<"Not specified">>

\* deps[name] = version
DictSet(deps, name, version) ==
    {d \in deps : d[1] # name} \cup {<<name, version>>}

\* line 97: the lines of the file; no line follows a final newline
FileLines(file) ==
    LET pieces == Split(file, <<NL>>)
    IN  IF pieces[Len(pieces)] = <<>>
        THEN SubSeq(pieces, 1, Len(pieces) - 1) ELSE pieces

\* lines 102 and 105: name, version = line.split(op) raises ValueError unless
\* the split gives exactly two pieces
Unpacks(pieces) == Len(pieces) = 2

\* lines 98-108: one line of the file
ParseLine(deps, raw) ==
    LET line == Strip(raw, Whitespace)
        op == IF Contains(line, <<"=", "=">>) THEN <<"=", "=">>
              ELSE IF Contains(line, <<">", "=">>) THEN <<">", "=">>
              ELSE <<>>
        pieces == IF op = <<>> THEN <<line>> ELSE Split(line, op)
    IN  IF line = <<>> \/ line[1] = "#" THEN [deps |-> deps, raised |-> FALSE]
        ELSE IF op = <<>>
            THEN [deps |-> DictSet(deps, line, NotSpecified), raised |-> FALSE]
        ELSE IF Unpacks(pieces)
            THEN [deps |-> DictSet(deps, pieces[1], pieces[2]), raised |-> FALSE]
        ELSE [deps |-> deps, raised |-> TRUE]

\* lines 97-108: the loop over the lines, left by the first exception
RECURSIVE ParseLines(_, _)
ParseLines(deps, lines) ==
    IF lines = <<>> THEN [deps |-> deps, raised |-> FALSE]
    ELSE LET r == ParseLine(deps, Head(lines))
         IN  IF r.raised THEN r ELSE ParseLines(r.deps, Tail(lines))

\* lines 92-111: the dict returned and whether the error message was printed;
\* readable is FALSE when open() fails
parse_python_requirements(file, readable) ==
    IF ~readable THEN [deps |-> {}, error |-> TRUE]
    ELSE LET r == ParseLines({}, FileLines(file))
         IN  [deps |-> r.deps, error |-> r.raised]

(***************************************************************************)
(* main                                                                    *)
(***************************************************************************)
NoExc == [type |-> "None", code |-> NoCode]
SystemExit(code) == [type |-> "SystemExit", code |-> code]
Raised(type) == [type |-> type, code |-> NoCode]

\* the exit status of the interpreter when exception e leaves main: that of
\* a SystemExit, 1 after the traceback of any other, 0 when main returns
ExitStatus(e) ==
    IF e.type = "None" THEN 0
    ELSE IF e.type = "SystemExit" THEN e.code
    ELSE 1

\* a test that lets extra arguments through
WrongArgCountBelow(args) == Len(args) + 1 < 2

\* line 187
WrongArgCount(args) == Len(args) + 1 # 2

\* a directory removed only when the block ends without an exception
SurvivesWithRaised(e) == e.type # "None"

\* line 196: does the directory survive the end of the with block left with
\* exception e
SurvivesWith(e) == FALSE

\* line 204
NoManagers(found) == found = <<>>

\* line 206
NoManagersCode == 0

\* lines 187-192
CheckArgs ==
    /\ pc = "args"
    /\ IF WrongArgCount(argv)
       THEN /\ out' = out \o << <<"Usage">> >>
            /\ exitCode' = 1
            /\ pc' = "exited"
       ELSE /\ pc' = "validate"
            /\ UNCHANGED <<out, exitCode>>
    /\ UNCHANGED <<argv, owner, repo, exc, tempExists, tempCreated, remote,
                   cloneOutcome, tree, package_managers, idx, results, calls,
                   reqFile, reqResult>>

\* line 193 with lines 20-32
ValidateUrl ==
    /\ pc = "validate"
    /\ calls' = Append(calls, "validate_github_url")
    /\ LET r == validate_github_url(argv[1])
       IN  IF r.exit # NoCode
           THEN /\ out' = out \o << <<"Error parsing GitHub URL">> >>
                /\ exitCode' = r.exit
                /\ pc' = "exited"
                /\ UNCHANGED <<owner, repo>>
           ELSE /\ owner' = r.owner
                /\ repo' = r.repo
                /\ pc' = "mktemp"
                /\ UNCHANGED <<out, exitCode>>
    /\ UNCHANGED <<argv, exc, tempExists, tempCreated, remote, cloneOutcome, tree,
                   package_managers, idx, results, reqFile, reqResult>>

\* line 196: entering the with block
EnterTemp ==
    /\ pc = "mktemp"
    /\ tempExists' = TRUE
    /\ tempCreated' = TRUE
    /\ pc' = "clone"
    /\ UNCHANGED <<argv, owner, repo, exc, remote, cloneOutcome, tree,
                   package_managers, idx, results, out, calls, exitCode,
                   reqFile, reqResult>>

\* line 199 with lines 34-47
CloneRepo ==
    /\ pc = "clone"
    /\ \E outcome \in CloneOutcomes :
          LET r == clone_repo(outcome)
          IN  /\ out' = out \o r.out
              /\ calls' = Append(calls, "clone_repo") \o r.calls
              /\ cloneOutcome' = outcome
              /\ IF r.raised # "None"
                 THEN /\ exc' = [type |-> r.raised, code |-> r.code]
                      /\ pc' = "except"
                      /\ UNCHANGED tree
                 ELSE /\ tree' = remote
                      /\ pc' = "detect"
                      /\ UNCHANGED exc
    /\ UNCHANGED <<argv, owner, repo, tempExists, tempCreated, remote,
                   package_managers, idx, results, exitCode, reqFile,
                   reqResult>>

\* line 202 with lines 49-77
Detect ==
    /\ pc = "detect"
    /\ calls' = Append(calls, "detect_package_managers")
    /\ \E first \in FirstMatches(tree) :
          package_managers' = detect_package_managers(tree, first)
    /\ pc' = "found"
    /\ UNCHANGED <<argv, owner, repo, exc, tempExists, tempCreated, remote,
                   cloneOutcome, tree, idx, results, out, exitCode, reqFile,
                   reqResult>>

\* lines 204-213, up to the call of check_outdated_packages
Report ==
    /\ pc = "found"
    /\ IF NoManagers(package_managers)
       THEN /\ out' = out \o << <<"No recognized dependency files found">> >>
            /\ exc' = SystemExit(NoManagersCode)
            /\ pc' = "except"
            /\ UNCHANGED <<calls, idx>>
       ELSE /\ out' = out \o
                << <<"Found", [i \in DOMAIN package_managers |->
                                  package_managers[i][1]]>> >>
            /\ calls' = Append(calls, "check_outdated_packages")
            /\ idx' = 1
            /\ pc' = "check"
            /\ UNCHANGED exc
    /\ UNCHANGED <<argv, owner, repo, tempExists, tempCreated, remote, cloneOutcome,
                   tree, package_managers, results, exitCode, reqFile,
                   reqResult>>

\* lines 115-159: one turn of the loop, given what the manager's command gave
CheckWith(result) ==
    LET manager == package_managers[idx][1]
        h == Handler(manager, result)
    IN  /\ out' = out \o CheckOutput(manager, result)
        /\ calls' = calls \o Commands(manager, result)
        /\ results' = Append(results, result)
        /\ IF h.raised # "None" /\ ~LoopCatches(h.raised)
           THEN /\ exc' = Raised(h.raised)
                /\ pc' = "except"
                /\ UNCHANGED idx
           ELSE /\ idx' = idx + 1
                /\ UNCHANGED <<exc, pc>>
        /\ UNCHANGED <<argv, owner, repo, tempExists, tempCreated, remote,
                       cloneOutcome, tree, package_managers, exitCode, reqFile,
                       reqResult>>

\* a package named by n characters
Rep(n) == [i \in 1..n |-> "x"]

\* what the commands of the managers may give
NoRun == Ran(Blank)
GoodPip == [name |-> Rep(1), version |-> "1.0.0", latest_version |-> "2.0.0"]
BadPip == [name |-> Rep(2), version |-> "1.0.0"]
Results(manager) ==
    IF manager = "npm"
    THEN {NoLaunch, Ran(Blank), Ran(NotJson),
          Ran(Json(<< <<Rep(1), [current |-> "1.0.0", latest |-> "2.0.0"]>> >>))}
    ELSE IF manager = "pip"
    THEN {NoLaunch, Ran(Blank), Ran(NotJson), Ran(Json(<<GoodPip>>)),
          Ran(Json(<<GoodPip, BadPip>>))}
    ELSE IF manager = "composer"
    THEN {NoLaunch, Ran(Blank), Ran(NotJson), Ran(Json(<<>>)),
          Ran(Json([installed |->
                      << [name |-> Rep(1), version |-> "1.0.0",
                          latest |-> "1.0.0"] >>]))}
    ELSE {NoRun}

CheckManager ==
    /\ pc = "check"
    /\ idx <= Len(package_managers)
    /\ \E result \in Results(package_managers[idx][1]) : CheckWith(result)

\* line 213: check_outdated_packages returns and the try block ends
CheckReturn ==
    /\ pc = "check"
    /\ idx > Len(package_managers)
    /\ pc' = "with exit"
    /\ UNCHANGED <<argv, owner, repo, exc, tempExists, tempCreated, remote,
                   cloneOutcome, tree, package_managers, idx, results, out, calls,
                   exitCode, reqFile, reqResult>>

\* lines 215-217: an exception leaves the try block
Except ==
    /\ pc = "except"
    /\ IF MainCatches(exc.type)
       THEN /\ out' = out \o << <<"Error analyzing repository">> >>
            /\ exc' = SystemExit(1)
       ELSE UNCHANGED <<out, exc>>
    /\ pc' = "with exit"
    /\ UNCHANGED <<argv, owner, repo, tempExists, tempCreated, remote, cloneOutcome,
                   tree, package_managers, idx, results, calls, exitCode,
                   reqFile, reqResult>>

\* line 196: the with block is left and the interpreter ends
ExitWith ==
    /\ pc = "with exit"
    /\ tempExists' = SurvivesWith(exc)
    /\ exitCode' = ExitStatus(exc)
    /\ pc' = "exited"
    /\ UNCHANGED <<argv, owner, repo, exc, tempCreated, remote, cloneOutcome, tree,
                   package_managers, idx, results, out, calls, reqFile,
                   reqResult>>

\* a file read by parse_python_requirements
ParseRequirements ==
    /\ pc = "parse"
    /\ \E readable \in BOOLEAN :
          LET r == parse_python_requirements(reqFile, readable)
          IN  reqResult' = [deps |-> r.deps, error |-> r.error,
                            opened |-> readable]
    /\ pc' = "parsed"
    /\ UNCHANGED <<argv, owner, repo, exc, tempExists, tempCreated, remote,
                   cloneOutcome, tree, package_managers, idx, results, out, calls,
                   exitCode, reqFile>>

\* the state of the interpreter when main is entered with arguments args
Start(args, files) ==
    /\ pc = "args"
    /\ argv = args
    /\ owner = None
    /\ repo = None
    /\ exc = NoExc
    /\ tempExists = FALSE
    /\ tempCreated = FALSE
    /\ remote = files
    /\ cloneOutcome = "none"
    /\ tree = {}
    /\ package_managers = <<>>
    /\ idx = 0
    /\ results = <<>>
    /\ out = <<>>
    /\ calls = <<>>
    /\ exitCode = NoCode
    /\ reqFile = <<>>
    /\ reqResult = [deps |-> {}, error |-> FALSE, opened |-> FALSE]

\* the program run on a few arguments against every repository
ArgvSamples ==
    { <<>>,
      << <<"a", "/", "a">> >>,
      << <<"a", ":", "/", "/", "a", "/", "a", "/", "a">> >>,
      << <<"/", "a">> >>,
      << <<"a", "/", "a">>, <<"a">> >> }

Init == \E args \in ArgvSamples, files \in Trees : Start(args, files)

Next ==
    \/ CheckArgs
    \/ ValidateUrl
    \/ EnterTemp
    \/ CloneRepo
    \/ Detect
    \/ Report
    \/ CheckManager
    \/ CheckReturn
    \/ Except
    \/ ExitWith

Spec == Init /\ [][Next]_vars

(***************************************************************************)
(* main from its entry to the clone, on every URL of the bound             *)
(***************************************************************************)
Argvs ==
    {<<>>} \cup {<<u>> : u \in Urls} \cup
    {<<u, u>> : u \in StrUpTo(UrlChars, 1)}

InitUrl == \E args \in Argvs : Start(args, {})

NextUrl ==
    \/ CheckArgs
    \/ ValidateUrl
    \/ EnterTemp
    \/ CloneRepo
    \/ Except
    \/ ExitWith

SpecUrl == InitUrl /\ [][NextUrl]_vars

(***************************************************************************)
(* check_outdated_packages on every report npm may give for a repository   *)
(* that holds package.json                                                 *)
(***************************************************************************)
Versions == {"1.0.0", "2.0.0", "N/A"}
Names == {Rep(1)} \cup {Rep(n) : n \in NameLimit..(NameLimit + NameSlack)}
Infos == UNION {[keys -> Versions] : keys \in SUBSET {"current", "latest"}}
NpmEntries == Names \X Infos
NpmReports ==
    {r \in UNION {[1..k -> NpmEntries] : k \in 0..MaxPkgs} :
        \A i, j \in DOMAIN r : r[i][1] = r[j][1] => i = j}

NpmTree == {<< <<"package", "json">> >>}

InitPrint ==
    /\ pc = "check"
    /\ argv = << <<"a", "/", "a">> >>
    /\ owner = <<"a">>
    /\ repo = <<"a">>
    /\ exc = NoExc
    /\ tempExists = TRUE
    /\ tempCreated = TRUE
    /\ remote = NpmTree
    /\ cloneOutcome = "ok"
    /\ tree = NpmTree
    /\ package_managers \in
          {detect_package_managers(NpmTree, first) : first \in FirstMatches(NpmTree)}
    /\ idx = 1
    /\ results = <<>>
    /\ out = << <<"Analyzing repository">>, <<"Found", <<"npm">>>> >>
    /\ calls = <<"validate_github_url", "clone_repo", "git clone",
                 "detect_package_managers", "check_outdated_packages">>
    /\ exitCode = NoCode
    /\ reqFile = <<>>
    /\ reqResult = [deps |-> {}, error |-> FALSE, opened |-> FALSE]

CheckNpm ==
    /\ pc = "check"
    /\ idx <= Len(package_managers)
    /\ package_managers[idx][1] = "npm"
    /\ \E report \in NpmReports : CheckWith(Ran(Json(report)))

NextPrint == CheckNpm \/ CheckReturn

SpecPrint == InitPrint /\ [][NextPrint]_vars

(***************************************************************************)
(* parse_python_requirements on every file of the bound                    *)
(***************************************************************************)
InitReq ==
    /\ pc = "parse"
    /\ argv = <<>>
    /\ owner = None
    /\ repo = None
    /\ exc = NoExc
    /\ tempExists = FALSE
    /\ tempCreated = FALSE
    /\ remote = {}
    /\ cloneOutcome = "none"
    /\ tree = {}
    /\ package_managers = <<>>
    /\ idx = 0
    /\ results = <<>>
    /\ out = <<>>
    /\ calls = <<>>
    /\ exitCode = NoCode
    /\ reqFile \in ReqFiles
    /\ reqResult = [deps |-> {}, error |-> FALSE, opened |-> FALSE]

NextReq == ParseRequirements

SpecReq == InitReq /\ [][NextReq]_vars

(***************************************************************************)
(* The properties                                                          *)
(***************************************************************************)
Range(f) == {f[i] : i \in DOMAIN f}
Printed(message) == <<message>> \in Range(out)
Called(name) == name \in Range(calls)
ManagerCommands ==
    {"npm outdated", "pip install", "pip list", "composer outdated"}

\* C1: once the process has ended, the temporary directory main created is
\* gone, whichever way the run ended.
C1_ScratchRemoved == (pc = "exited" /\ tempCreated) => ~tempExists

\* a run ended by an exception that reached the handler of main
C1_Witness ==
    /\ pc = "exited"
    /\ tempCreated
    /\ ~tempExists
    /\ Printed("Error analyzing repository")

\* C2: when git clone exits non-zero the run is on its way out with exit
\* status 1, and detect_package_managers and check_outdated_packages are
\* never entered.
C2_CloneFailureFatal ==
    cloneOutcome = "clone failed" =>
        /\ ~Called("detect_package_managers")
        /\ ~Called("check_outdated_packages")
        /\ pc \in {"except", "with exit", "exited"}
        /\ exc = SystemExit(1)
        /\ pc = "exited" => exitCode = 1

C2_Witness ==
    /\ cloneOutcome = "clone failed"
    /\ pc = "exited"
    /\ exitCode = 1
    /\ Called("git clone")

\* C3: a cloned tree without any marker file ends the run with the "no
\* recognized dependency files" message and exit status 0, no package
\* manager having been run and the handler of main not having caught the
\* exit.
LiteralMarkers == {package_files[i][1] : i \in 1..9}
NoMarkers(t) ==
    \A p \in t : /\ ~(Len(p) = 1 /\ p[1] \in LiteralMarkers)
                 /\ p[Len(p)][2] # "csproj"

C3_NoManifestExitsZero ==
    (pc = "exited" /\ cloneOutcome = "ok" /\ NoMarkers(tree)) =>
        /\ Printed("No recognized dependency files found")
        /\ exitCode = 0
        /\ Range(calls) \cap ManagerCommands = {}
        /\ ~Called("check_outdated_packages")
        /\ ~Printed("Error analyzing repository")

\* a tree that holds files, none of them a marker at its place
C3_Witness ==
    /\ pc = "exited"
    /\ cloneOutcome = "ok"
    /\ NoMarkers(tree)
    /\ tree # {}
    /\ exitCode = 0

\* the segments of a path: what lies between its slashes, the slashes at
\* its ends apart
Slashes(path) == {i \in DOMAIN path : path[i] = "/"}
Inner(path) == DOMAIN path \ Slashes(path)
Lo(path) == CHOOSE i \in Inner(path) : \A j \in Inner(path) : i <= j
Hi(path) == CHOOSE i \in Inner(path) : \A j \in Inner(path) : i >= j
Cuts(path) ==
    {Lo(path) - 1, Hi(path) + 1} \cup
    {i \in Slashes(path) : Lo(path) < i /\ i < Hi(path)}
NumSegments(path) ==
    IF Inner(path) = {} THEN 0 ELSE Cardinality(Cuts(path)) - 1
\* the k-th segment: from the k-th cut to the next one
Segment(path, k) ==
    LET start == CHOOSE c \in Cuts(path) :
                    Cardinality({d \in Cuts(path) : d < c}) = k - 1
        stop == CHOOSE c \in Cuts(path) :
                    Cardinality({d \in Cuts(path) : d < c}) = k
    IN  SubSeq(path, start + 1, stop - 1)
ArgPath == urlparse(argv[1]).path

\* C4: a URL whose path has two segments or more gives its first two
\* segments as owner and repo; a URL whose path has fewer ends the run with
\* exit status 1 before any directory is created or any clone attempted.
C4_OwnerRepoOrExit ==
    (Len(argv) = 1 /\ Called("validate_github_url")) =>
        IF NumSegments(ArgPath) >= 2
        THEN /\ owner = Segment(ArgPath, 1)
             /\ repo = Segment(ArgPath, 2)
             /\ ~Printed("Error parsing GitHub URL")
        ELSE /\ pc = "exited"
             /\ exitCode = 1
             /\ ~tempCreated
             /\ ~Called("clone_repo")
             /\ ~Called("git clone")

\* a URL with a scheme whose path has three segments, accepted and cloned
C4_Witness ==
    /\ Len(argv) = 1
    /\ urlparse(argv[1]).scheme # <<>>
    /\ NumSegments(ArgPath) = 3
    /\ owner = Segment(ArgPath, 1)
    /\ repo = Segment(ArgPath, 2)
    /\ repo # <<>>
    /\ Called("git clone")

\* C7: validate_github_url returns only non-empty owner and repo: a URL
\* whose first or second path segment is empty ends the run with a non-zero
\* exit status.
C7_NonEmptyOwnerRepo ==
    (Len(argv) = 1 /\ Called("validate_github_url")) =>
        IF NumSegments(ArgPath) >= 2 /\ Segment(ArgPath, 1) # <<>>
                                     /\ Segment(ArgPath, 2) # <<>>
        THEN owner # <<>> /\ repo # <<>>
        ELSE pc = "exited" /\ exitCode # 0

\* the managers of the map, in its order
Keys == [i \in DOMAIN package_managers |-> package_managers[i][1]]
IsSection(message) == message[1] = "section"
IsRow(message) == message[1] = "row"
\* the managers whose section was printed, in order
Attempted ==
    LET sections == SelectSeq(out, IsSection)
    IN  [i \in DOMAIN sections |-> sections[i][2]]
\* a check that cannot complete: the binary is missing, the output is not
\* JSON, or an entry of pip's list lacks a key
Failed(manager, result) ==
    /\ manager \in {"npm", "pip", "composer"}
    /\ \/ ~result.launched
       \/ result.stdout.kind = "text"
       \/ /\ manager = "pip"
          /\ result.stdout.kind = "json"
          /\ \E i \in DOMAIN result.stdout.value :
                \E k \in {"name", "version", "latest_version"} :
                    k \notin DOMAIN result.stdout.value[i]
Reported(manager) ==
    \/ <<"Unexpected error checking", manager>> \in Range(out)
    \/ <<"Error checking", manager>> \in Range(out)

Fatal ==
    \/ Len(argv) # 1
    \/ Len(argv) = 1 /\ NumSegments(ArgPath) < 2
    \/ cloneOutcome \in {"git missing", "clone failed"}
    \/ Printed("Error analyzing repository")

C6_ExitCodes ==
    pc = "exited" =>
        /\ exitCode \in {0, 1}
        /\ exitCode = 1 <=> Fatal
        /\ Printed("No recognized dependency files found") => exitCode = 0
        /\ Called("check_outdated_packages") => exitCode = 0

\* every check of the run failed and the exit status is 0
C6_Witness ==
    /\ pc = "exited"
    /\ exitCode = 0
    /\ results # <<>>
    /\ \A i \in DOMAIN results : Failed(Keys[i], results[i])

\* is the marker of the i-th line of the table in tree t: a literal one right
\* under the root, the *.csproj one anywhere
MarkerPresent(t, i) ==
    IF i = 10 THEN \E p \in t : p[Len(p)][2] = "csproj"
    ELSE <<package_files[i][1]>> \in t
ManagersPresent(t) ==
    {package_files[i][2] : i \in {j \in 1..10 : MarkerPresent(t, j)}}
MarkerLine(manager) == CHOOSE i \in 1..10 : package_files[i][2] = manager

\* C8: the map detect_package_managers returns has exactly the managers
\* whose marker is in the tree as its keys, each once, each with the path of
\* a file of the tree that is its marker.
C8_DetectExact ==
    Called("detect_package_managers") =>
        /\ Range(Keys) = ManagersPresent(tree)
        /\ \A i, j \in DOMAIN Keys : Keys[i] = Keys[j] => i = j
        /\ \A i \in DOMAIN Keys :
              LET path == package_managers[i][2]
                  line == MarkerLine(Keys[i])
              IN  /\ path \in tree
                  /\ IF line = 10 THEN path[Len(path)][2] = "csproj"
                     ELSE path = <<package_files[line][1]>>
        /\ tree = {<< <<"package", "json">> >>} => Keys = <<"npm">>
        /\ tree = {<< <<"package", "json">> >>, << <<"requirements", "txt">> >>}
              => Keys = <<"npm", "pip">>

\* package.json is under src only and a .csproj file is under src: the map
\* holds dotnet alone
C8_Witness ==
    /\ Called("detect_package_managers")
    /\ tree = {<< <<"src", "">>, <<"package", "json">> >>,
               << <<"src", "">>, <<"lib", "csproj">> >>}
    /\ Keys = <<"dotnet">>

\* the report npm gave in the check that was just made, and the rows printed
Report1 == results[1].stdout.value
Rows == SelectSeq(out, IsRow)
CurrentOf(entry) ==
    IF "current" \in DOMAIN entry[2] THEN entry[2]["current"] ELSE "N/A"
LatestOf(entry) ==
    IF "latest" \in DOMAIN entry[2] THEN entry[2]["latest"] ELSE "N/A"
Dash(version) == IF version = "N/A" THEN "-" ELSE version
EqualityStatus(entry) ==
    IF CurrentOf(entry) = LatestOf(entry) THEN "Up to date"
    ELSE "Update Available"
NpmChecked == pc = "check" /\ idx = 2 /\ Keys = <<"npm">> /\ Len(results) = 1

\* C9 as stated: every entry of npm's report gives one row, in order, with
\* the entry's name, its current and latest versions ("-" for "N/A") and the
\* status "Up to date" exactly when the two versions are equal strings.
C9_RowPerEntry ==
    NpmChecked =>
        /\ Len(Rows) = Len(Report1)
        /\ \A i \in DOMAIN Rows :
              Rows[i] = <<"row", Report1[i][1], Dash(CurrentOf(Report1[i])),
                          Dash(LatestOf(Report1[i])),
                          EqualityStatus(Report1[i])>>

\* C9 as amended: the same, the row showing the first NameLimit characters
\* of the entry's name.
C9_RowPerEntryTruncated ==
    NpmChecked =>
        /\ Len(Rows) = Len(Report1)
        /\ \A i \in DOMAIN Rows :
              Rows[i] = <<"row", SubSeq(Report1[i][1], 1,
                                        Min(NameLimit, Len(Report1[i][1]))),
                          Dash(CurrentOf(Report1[i])),
                          Dash(LatestOf(Report1[i])),
                          EqualityStatus(Report1[i])>>

\* a report of two entries: one up to date, one lacking its current
\* version, with a name longer than the name column
C9_Witness ==
    /\ NpmChecked
    /\ Len(Rows) = 2
    /\ Rows[1][5] = "Up to date"
    /\ Rows[1][3] = "1.0.0"
    /\ "current" \notin DOMAIN Report1[2][2]
    /\ Rows[2][3] = "-"
    /\ Rows[2][5] = "Update Available"
    /\ Len(Report1[2][1]) > NameLimit

\* what the file declares, each line cut at the first occurrence of its
\* operator: == if the line holds one, else >= if it holds one
FirstCut(line) ==
    IF Contains(line, <<"=", "=">>) THEN FindStr(line, <<"=", "=">>)
    ELSE FindStr(line, <<">", "=">>)
Declared(raw) ==
    LET line == Strip(raw, Whitespace)
    IN  IF line = <<>> \/ line[1] = "#" THEN <<>>
        ELSE IF FirstCut(line) < 0 THEN <<line, NotSpecified>>
        ELSE <<SubSeq(line, 1, FirstCut(line)),
               SubSeq(line, FirstCut(line) + 3, Len(line))>>
\* the last declaration of each name
ExpectedDeps(file) ==
    LET lines == FileLines(file)
        decl == [i \in DOMAIN lines |-> Declared(lines[i])]
    IN  {decl[i] : i \in {j \in DOMAIN decl :
            /\ decl[j] # <<>>
            /\ \A k \in DOMAIN decl :
                  (k > j /\ decl[k] # <<>>) => decl[k][1] # decl[j][1]}}

\* C10: every line of the file that is neither blank nor a comment is
\* recorded cut at the first occurrence of its operator, however often the
\* operator occurs; a file that cannot be read gives an empty mapping; the
\* parser raises nothing.
C10_FirstOccurrence ==
    pc = "parsed" =>
        IF reqResult.opened
        THEN reqResult.deps = ExpectedDeps(reqFile) /\ ~reqResult.error
        ELSE reqResult.deps = {}

\* where the parser raises nothing it returns what the file declares
C10_Agreement ==
    (pc = "parsed" /\ reqResult.opened /\ ~reqResult.error) =>
        reqResult.deps = ExpectedDeps(reqFile)

====
